---- MODULE Spec2Model ----
(***************************************************************************)
(* umbra-js/src/utils/ens.ts: the ENS helpers of umbra-js.                 *)
(*                                                                         *)
(* The file keeps no state of its own.  The state of the model is what the *)
(* functions act on and what their callers can observe: the text records   *)
(* of the ENS public resolver, the transactions sent to it, and the        *)
(* position of every call of an exported function that is in flight (each  *)
(* function is async: it suspends at every await).                         *)
(***************************************************************************)
EXTENDS Integers, Sequences, FiniteSets, TLC

\* ------------------------------------------------------------------ bounds
\* Calls of exported functions made in one behaviour; all may be in flight at
\* the same time.
MaxCalls == 2
\* Transactions sent to the resolver in one behaviour.
MaxTx == 2

\* ------------------------------------------------------------- input sets
\* A domain name is a string: here the sequence of its characters.
Names ==
  { <<"a", ".", "e">>,
    <<"A", ".", "e">>,
    <<"b", ".", "e">>,
    <<"a", "_", "e">> }

\* Signature arguments and stored signature records ("" is the empty string).
Signatures == {"", "0x1", "0xbad"}

\* Bytecode records the resolver may hold.
Bytecodes == {"", "0xb"}

\* JavaScript's undefined, and the value of a field not set yet.
Undefined == "undefined"
NoValue == "none"

\* ---------------------------------------------------------------- ens.ts
umbraKeySignature == "vnd.umbra-v0-signature"
umbraKeyBytecode == "vnd.umbra-v0-bytecode"
Keys == {umbraKeySignature, umbraKeyBytecode}

\* eth-ens-namehash normalize(): UTS46 with useStd3ASCII.  Upper-case ASCII
\* letters map to lower case, letters, digits, "-" and "." are kept, any
\* other ASCII character (here "_") is an error.
UpperToLower == [ch \in {"A", "B", "E"} |->
                   CASE ch = "A" -> "a" [] ch = "B" -> "b" [] ch = "E" -> "e"]
ValidChars == {"a", "b", "e", "."}

MapChar(ch) == IF ch \in DOMAIN UpperToLower THEN UpperToLower[ch] ELSE ch

NormalizeThrows(name) ==
  \E i \in 1..Len(name) : MapChar(name[i]) \notin ValidChars

\* A normalize that keeps the name as written.
normalizeAsIs(name) == name

normalize(name) == [i \in 1..Len(name) |-> MapChar(name[i])]

\* keccak-256, taken as collision free: the digest is the tagged preimage.
sha3(x) == <<"sha3", x>>

\* The node of the empty name: 32 zero bytes.
ZeroNode == <<>>

\* name.split('.')
RECURSIVE SplitFrom(_, _, _)
SplitFrom(name, i, label) ==
  IF i > Len(name) THEN <<label>>
  ELSE IF name[i] = "." THEN <<label>> \o SplitFrom(name, i + 1, <<>>)
  ELSE SplitFrom(name, i + 1, Append(label, name[i]))

split(name) == SplitFrom(name, 1, <<>>)

\* eth-ens-namehash hash(): normalizes its input itself, then, from the last
\* label to the first, node = sha3(node ++ sha3(label)), starting from the
\* zero node.  The empty name hashes to the zero node.
RECURSIVE HashLabels(_, _, _)
HashLabels(labels, i, node) ==
  IF i = 0 THEN node
  ELSE HashLabels(labels, i - 1, sha3(<<node, sha3(labels[i])>>))

hash(inputName) ==
  LET name == normalize(inputName)
      labels == split(name)
  IN  IF name = <<>> THEN ZeroNode
      ELSE HashLabels(labels, Len(labels), ZeroNode)

\* export function namehash(name)
namehash(name) == hash(normalize(name))

\* namehash(name) throws when the name cannot be normalized.
namehashThrows(name) == NormalizeThrows(name)

\* Every identifier the calls of the model can address.
Nodes == {namehash(n) : n \in {m \in Names : ~namehashThrows(m)}}

\* What `!signature` tests: undefined and the empty string are falsy.
Falsy(v) == v \in {Undefined, ""}

\* ./utils getPublicKeyFromSignature(): the key that signed the Umbra message
\* with this signature; a string that is no signature makes it throw.
PublicKeyThrows(signature) == signature = "0xbad"
getPublicKeyFromSignature(signature) == "pk:" \o signature

\* tx.hash of the t-th transaction sent.
TxHash(t) == "0xtx" \o ToString(t)

\* ------------------------------------------------------------------ state
VARIABLES
  texts,    \* the resolver's text records: [Nodes \X Keys -> string]
  txs,      \* the setText transactions sent, in the order they were sent:
            \* node, key, value and status, and (for the properties) the
            \* function that sent each and its arguments
  applied,  \* the transactions the resolver executed, in execution order
  calls     \* per call slot, the call of an exported function in flight

vars == <<texts, txs, applied, calls>>

Slots == 1..MaxCalls

\* A free slot.  op, name, sig: the function called and its arguments; pc:
\* the await the call is suspended at, or how it settled; node, key, value:
\* the arguments of the resolver call it issued; tx: the index in txs of the
\* transaction it sent; result, error: what its promise resolved or rejected
\* with.  Kept for the properties only: reads/writes, the resolver reads and
\* writes the call issued; raised, what the layer below raised into the call;
\* got, the string the resolver answered its read with; helper, the argument
\* getPublicKeyFromSignature was called with; at, the number of executed
\* transactions when its read was answered.
Idle ==
  [op |-> "none", name |-> <<>>, sig |-> NoValue, pc |-> "idle",
   node |-> ZeroNode, key |-> NoValue, value |-> NoValue, tx |-> 0,
   result |-> NoValue, error |-> NoValue,
   reads |-> 0, writes |-> 0, raised |-> NoValue, got |-> NoValue,
   helper |-> NoValue, at |-> 0]

\* What an await hands back to the function: a value or a rejection.
Ok(v) == [ok |-> TRUE, value |-> v]
Err(e) == [ok |-> FALSE, value |-> e]

\* The function's promise rejects with e / resolves with v.
Throw(call, e) == [call EXCEPT !.pc = "failed", !.error = e]
Return(call, v) == [call EXCEPT !.pc = "done", !.result = v]

\* await publicResolver.text(node, key): one read is issued.
AwaitText(call, node, key) ==
  [call EXCEPT !.pc = "text", !.node = node, !.key = key, !.reads = @ + 1]

\* await publicResolver.setText(node, key, value): one write is issued.
AwaitSetText(call, node, key, value) ==
  [call EXCEPT !.pc = "setText", !.node = node, !.key = key, !.value = value,
               !.writes = @ + 1]

\* -------------------------------------------------- the exported functions
\* A getSignature that reads the bytecode record.
getSignatureBeginBytecodeKey(call) ==
  IF namehashThrows(call.name) THEN Throw(call, "InvalidName")
  ELSE AwaitText(call, namehash(call.name), umbraKeyBytecode)

\* getSignature, up to its await (lines 32-33).
getSignatureBegin(call) ==
  IF namehashThrows(call.name) THEN Throw(call, "InvalidName")
  ELSE AwaitText(call, namehash(call.name), umbraKeySignature)

\* A getSignature that reports a failed read as a missing record.
getSignatureResumeSwallows(call, outcome) ==
  IF outcome.ok THEN Return(call, outcome.value) ELSE Return(call, Undefined)

\* getSignature, from its await on (lines 33-34).
getSignatureResume(call, outcome) ==
  IF outcome.ok THEN Return(call, outcome.value) ELSE Throw(call, outcome.value)

\* A getBytecode that clears the record instead of reading it.
getBytecodeBeginWrites(call) ==
  IF namehashThrows(call.name) THEN Throw(call, "InvalidName")
  ELSE AwaitSetText(call, namehash(call.name), umbraKeyBytecode, "")

\* getBytecode, up to its await (lines 55-56).
getBytecodeBegin(call) ==
  IF namehashThrows(call.name) THEN Throw(call, "InvalidName")
  ELSE AwaitText(call, namehash(call.name), umbraKeyBytecode)

\* getBytecode, from its await on (lines 56-57).
getBytecodeResume(call, outcome) ==
  IF outcome.ok THEN Return(call, outcome.value) ELSE Throw(call, outcome.value)

\* getPublicKey awaits getSignature(name, provider) (line 43).
getPublicKeyBegin(call) == getSignatureBegin(call)

\* A getPublicKey without the test of line 44.
getPublicKeyAfterSignatureNoTest(call, outcome) ==
  LET got == getSignatureResume(call, outcome)
  IN  IF got.pc = "failed" THEN got
      ELSE [call EXCEPT !.pc = "recover", !.helper = got.result]

\* A getPublicKey that reads the signature a second time.
getPublicKeyAfterSignatureRereads(call, outcome) ==
  LET got == getSignatureResume(call, outcome)
  IN  IF got.pc = "failed" THEN got
      ELSE IF call.reads < 2 THEN AwaitText(call, call.node, call.key)
      ELSE IF Falsy(got.result) THEN Return(call, Undefined)
      ELSE [call EXCEPT !.pc = "recover", !.helper = got.result]

\* getPublicKey, once getSignature has settled (lines 43-45).
getPublicKeyAfterSignature(call, outcome) ==
  LET got == getSignatureResume(call, outcome)
  IN  IF got.pc = "failed" THEN got
      ELSE IF Falsy(got.result) THEN Return(call, Undefined)
      ELSE [call EXCEPT !.pc = "recover", !.helper = got.result]

\* getPublicKey, once getPublicKeyFromSignature has settled (line 45).
getPublicKeyAfterRecover(call, outcome) ==
  IF outcome.ok THEN Return(call, outcome.value) ELSE Throw(call, outcome.value)

\* A setSignature that writes the bytecode record.
setSignatureBeginBytecodeKey(call) ==
  IF namehashThrows(call.name) THEN Throw(call, "InvalidName")
  ELSE AwaitSetText(call, namehash(call.name), umbraKeyBytecode, call.sig)

\* setSignature, up to its first await (lines 68-69).
setSignatureBegin(call) ==
  IF namehashThrows(call.name) THEN Throw(call, "InvalidName")
  ELSE AwaitSetText(call, namehash(call.name), umbraKeySignature, call.sig)

\* A setSignature without the await of line 70.
setSignatureAfterSetTextNoWait(call, outcome) ==
  IF outcome.ok
  THEN Return([call EXCEPT !.tx = outcome.value], TxHash(outcome.value))
  ELSE Throw(call, outcome.value)

\* setSignature, once setText has settled: await tx.wait() (lines 69-70).
setSignatureAfterSetText(call, outcome) ==
  IF outcome.ok THEN [call EXCEPT !.pc = "wait", !.tx = outcome.value]
  ELSE Throw(call, outcome.value)

\* setSignature, once tx.wait() has settled (lines 70-71).
setSignatureAfterWait(call, outcome) ==
  IF outcome.ok THEN Return(call, TxHash(call.tx)) ELSE Throw(call, outcome.value)

\* ------------------------------------------------------------ the resolver
\* PublicResolver.text(node, key) on the records recs: the stored string, ""
\* when none is stored.
TextIn(recs, node, key) == recs[<<node, key>>]

\* PublicResolver.text(node, key) on the current records.
ResolverText(node, key) == TextIn(texts, node, key)

\* PublicResolver.setText(node, key, value), executed.
ResolverSetText(node, key, value) == [texts EXCEPT ![<<node, key>>] = value]

NoRecords == [nk \in Nodes \X Keys |-> ""]

\* The records the resolver holds when the first call is made: a signature
\* and a bytecode for the domain a.e, nothing for any other domain.
InitialRecords ==
  LET n == namehash(<<"a", ".", "e">>)
  IN  [NoRecords EXCEPT ![<<n, umbraKeySignature>>] = "0x1",
                        ![<<n, umbraKeyBytecode>>] = "0xb"]

Init ==
  /\ texts = InitialRecords
  /\ txs = <<>>
  /\ applied = <<>>
  /\ calls = [c \in Slots |-> Idle]

\* ----------------------------------------------------------------- actions
\* The next call made takes the first free slot.
Free(c) ==
  /\ calls[c].pc = "idle"
  /\ \A d \in Slots : d < c => calls[d].pc # "idle"

\* What the layer below raised into a call that failed at once.
RaisedAtCall(name) == IF namehashThrows(name) THEN "InvalidName" ELSE NoValue

Enter(c, op, name, sig, begun) ==
  calls' = [calls EXCEPT ![c] = [begun EXCEPT !.raised = RaisedAtCall(name)]]

Start(op, name, sig) == [Idle EXCEPT !.op = op, !.name = name, !.sig = sig]

CallGetSignature(c) ==
  /\ Free(c)
  /\ \E name \in Names :
       Enter(c, "getSignature", name, NoValue,
             getSignatureBegin(Start("getSignature", name, NoValue)))
  /\ UNCHANGED <<texts, txs, applied>>

CallGetBytecode(c) ==
  /\ Free(c)
  /\ \E name \in Names :
       Enter(c, "getBytecode", name, NoValue,
             getBytecodeBegin(Start("getBytecode", name, NoValue)))
  /\ UNCHANGED <<texts, txs, applied>>

CallGetPublicKey(c) ==
  /\ Free(c)
  /\ \E name \in Names :
       Enter(c, "getPublicKey", name, NoValue,
             getPublicKeyBegin(Start("getPublicKey", name, NoValue)))
  /\ UNCHANGED <<texts, txs, applied>>

\* Transactions sent or about to be sent.
TxBudgetUsed ==
  Len(txs) + Cardinality({c \in Slots : calls[c].pc = "setText"})

CallSetSignature(c) ==
  /\ Free(c)
  /\ TxBudgetUsed < MaxTx
  /\ \E name \in Names, sig \in Signatures :
       Enter(c, "setSignature", name, sig,
             setSignatureBegin(Start("setSignature", name, sig)))
  /\ UNCHANGED <<texts, txs, applied>>

\* How each reading function goes on when its resolver read settles.
ResumeRead(call, outcome) ==
  CASE call.op = "getSignature" -> getSignatureResume(call, outcome)
    [] call.op = "getBytecode" -> getBytecodeResume(call, outcome)
    [] call.op = "getPublicKey" -> getPublicKeyAfterSignature(call, outcome)

\* The resolver answers a read (an eth_call against the current records).
TextReturns(c) ==
  /\ calls[c].pc = "text"
  /\ calls' = [calls EXCEPT ![c] =
       [ResumeRead(calls[c], Ok(ResolverText(calls[c].node, calls[c].key)))
          EXCEPT !.got = ResolverText(calls[c].node, calls[c].key),
                 !.at = Len(applied)]]
  /\ UNCHANGED <<texts, txs, applied>>

\* The read fails in the transport (the resolver cannot be reached).
TextFails(c) ==
  /\ calls[c].pc = "text"
  /\ calls' = [calls EXCEPT ![c] =
       [ResumeRead(calls[c], Err("NetworkError")) EXCEPT !.raised = "NetworkError"]]
  /\ UNCHANGED <<texts, txs, applied>>

\* getPublicKeyFromSignature settles.
RecoverSettles(c) ==
  /\ calls[c].pc = "recover"
  /\ LET sig == calls[c].helper
     IN  calls' = [calls EXCEPT ![c] =
           IF PublicKeyThrows(sig)
           THEN [getPublicKeyAfterRecover(calls[c], Err("InvalidSignature"))
                   EXCEPT !.raised = "InvalidSignature"]
           ELSE getPublicKeyAfterRecover(calls[c], Ok(getPublicKeyFromSignature(sig)))]
  /\ UNCHANGED <<texts, txs, applied>>

\* The signer sends the setText transaction: setText resolves with it.
SetTextSent(c) ==
  /\ calls[c].pc = "setText"
  /\ txs' = Append(txs, [node |-> calls[c].node, key |-> calls[c].key,
                         value |-> calls[c].value, status |-> "pending",
                         op |-> calls[c].op, name |-> calls[c].name,
                         sig |-> calls[c].sig])
  /\ calls' = [calls EXCEPT ![c] = setSignatureAfterSetText(calls[c], Ok(Len(txs) + 1))]
  /\ UNCHANGED <<texts, applied>>

\* The signer or the transport rejects the transaction: setText rejects.
SetTextFails(c) ==
  /\ calls[c].pc = "setText"
  /\ calls' = [calls EXCEPT ![c] =
       [setSignatureAfterSetText(calls[c], Err("Rejected")) EXCEPT !.raised = "Rejected"]]
  /\ UNCHANGED <<texts, txs, applied>>

\* A pending transaction is mined and the resolver executes it.
Mine(t) ==
  /\ txs[t].status = "pending"
  /\ texts' = ResolverSetText(txs[t].node, txs[t].key, txs[t].value)
  /\ txs' = [txs EXCEPT ![t].status = "success"]
  /\ applied' = Append(applied, t)
  /\ UNCHANGED calls

\* A pending transaction is mined and reverts (the sender is not authorised).
Revert(t) ==
  /\ txs[t].status = "pending"
  /\ txs' = [txs EXCEPT ![t].status = "reverted"]
  /\ UNCHANGED <<texts, applied, calls>>

\* tx.wait() resolves with the receipt of the executed transaction.
WaitReturns(c) ==
  /\ calls[c].pc = "wait"
  /\ txs[calls[c].tx].status = "success"
  /\ calls' = [calls EXCEPT ![c] = setSignatureAfterWait(calls[c], Ok(calls[c].tx))]
  /\ UNCHANGED <<texts, txs, applied>>

\* tx.wait() rejects: the transaction reverted.
WaitFails(c) ==
  /\ calls[c].pc = "wait"
  /\ txs[calls[c].tx].status = "reverted"
  /\ calls' = [calls EXCEPT ![c] =
       [setSignatureAfterWait(calls[c], Err("CallException"))
          EXCEPT !.raised = "CallException"]]
  /\ UNCHANGED <<texts, txs, applied>>

Next ==
  \/ \E c \in Slots : CallGetSignature(c)
  \/ \E c \in Slots : CallGetBytecode(c)
  \/ \E c \in Slots : CallGetPublicKey(c)
  \/ \E c \in Slots : CallSetSignature(c)
  \/ \E c \in Slots : TextReturns(c)
  \/ \E c \in Slots : TextFails(c)
  \/ \E c \in Slots : RecoverSettles(c)
  \/ \E c \in Slots : SetTextSent(c)
  \/ \E c \in Slots : SetTextFails(c)
  \/ \E t \in 1..Len(txs) : Mine(t)
  \/ \E t \in 1..Len(txs) : Revert(t)
  \/ \E c \in Slots : WaitReturns(c)
  \/ \E c \in Slots : WaitFails(c)

Spec == Init /\ [][Next]_vars

\* ============================================================ properties
Getters == {"getSignature", "getBytecode", "getPublicKey"}

\* Two names are capitalizations of the same domain.
SameLetter(x, y) ==
  \/ x = y
  \/ {x, y} \in {{"a", "A"}, {"b", "B"}, {"e", "E"}}

SameModuloCase(n1, n2) ==
  /\ Len(n1) = Len(n2)
  /\ \A i \in 1..Len(n1) : SameLetter(n1[i], n2[i])

\* The names namehash accepts, and the identifier namehash gives each.
ValidNames == {m \in Names : ~namehashThrows(m)}
IdOf == [d \in ValidNames |-> namehash(d)]

\* The greatest index of a set of indexes, 0 when there is none.
Last(S) == IF S = {} THEN 0 ELSE CHOOSE i \in S : \A j \in S : j <= i

\* The i-th transaction the resolver executed.
Executed(i) == txs[applied[i]]

\* Among the first k executed transactions, those that setSignature sent for
\* a name with the identifier n.
WritesToNode(n, k) ==
  {i \in 1..k : /\ Executed(i).op = "setSignature"
                /\ Executed(i).name \in ValidNames
                /\ IdOf[Executed(i).name] = n}

\* The same, for the identifier of the name d.
WritesToRecordOf(d, k) == WritesToNode(IdOf[d], k)

\* Among the first k executed transactions, those that setSignature sent for
\* a capitalization of d.
WritesModuloCase(d, k) ==
  {i \in 1..k : /\ Executed(i).op = "setSignature"
                /\ SameModuloCase(Executed(i).name, d)}

\* C1: a getSignature(d) that is answered when the last executed write to d's
\* signature record is that of a setSignature(d, s) returns exactly s.
C1_SetThenGet ==
  \A c \in Slots :
    (calls[c].op = "getSignature" /\ calls[c].pc = "done") =>
      LET i == Last(WritesToRecordOf(calls[c].name, calls[c].at))
      IN  (i # 0 /\ Executed(i).name = calls[c].name) =>
            calls[c].result = Executed(i).sig

\* C1 witness: setSignature(d, "0xbad") has returned its hash and a
\* getSignature(d) has returned "0xbad", which the resolver did not hold at
\* the start.
C1_Witness ==
  \E c1, c2 \in Slots :
    /\ calls[c1].op = "setSignature" /\ calls[c1].pc = "done"
    /\ calls[c1].sig = "0xbad" /\ calls[c1].result = TxHash(calls[c1].tx)
    /\ calls[c2].op = "getSignature" /\ calls[c2].pc = "done"
    /\ calls[c2].name = calls[c1].name
    /\ calls[c2].at >= 1
    /\ calls[c2].result = "0xbad"

\* C2: getPublicKey resolves with undefined, and does not call the recovery
\* helper, whenever the signature getSignature yields on the same resolver
\* state is absent (undefined or the empty string: what `!signature` tests);
\* otherwise it calls the helper with exactly that signature and resolves
\* with the helper's key.  getSignature yields the resolver's answer.
C2_PublicKeyFollowsSignature ==
  \A c \in Slots :
    /\ (calls[c].op = "getSignature" /\ calls[c].pc = "done") =>
         calls[c].result = calls[c].got
    /\ (calls[c].op = "getPublicKey" /\ calls[c].got # NoValue) =>
         IF Falsy(calls[c].got)
         THEN /\ calls[c].pc = "done"
              /\ calls[c].result = Undefined
              /\ calls[c].helper = NoValue
         ELSE /\ calls[c].helper = calls[c].got
              /\ calls[c].pc \in {"recover", "done", "failed"}
              /\ calls[c].pc = "done" =>
                   calls[c].result = getPublicKeyFromSignature(calls[c].got)

\* C2 witness: one getPublicKey has resolved with undefined for a domain
\* without a signature, another with the key of the stored signature.
C2_Witness ==
  \E c1, c2 \in Slots :
    /\ calls[c1].op = "getPublicKey" /\ calls[c1].pc = "done"
    /\ calls[c1].got = "" /\ calls[c1].result = Undefined
    /\ calls[c2].op = "getPublicKey" /\ calls[c2].pc = "done"
    /\ calls[c2].got = "0x1" /\ calls[c2].result = "pk:0x1"

\* C3: for a domain with no record set (the resolver answers the read with
\* the empty string), getSignature, getBytecode and getPublicKey each resolve
\* with undefined.
C3_AbsentIsUndefined ==
  \A c \in Slots :
    (calls[c].op \in Getters /\ calls[c].got = "") =>
      (calls[c].pc = "done" /\ calls[c].result = Undefined)

\* C4: namehash gives the same identifier to the same name and to two
\* capitalizations of the same domain: any two calls whose names differ in
\* letter case only have computed the same node.
C4_NamehashNormalizes ==
  \A c1, c2 \in Slots :
    (/\ calls[c1].key # NoValue
     /\ calls[c2].key # NoValue
     /\ SameModuloCase(calls[c1].name, calls[c2].name)) =>
      calls[c1].node = calls[c2].node

\* C4 witness: two calls, one for a.e and one for A.e, have both computed
\* their node.
C4_Witness ==
  \E c1, c2 \in Slots :
    /\ calls[c1].name = <<"a", ".", "e">> /\ calls[c1].key # NoValue
    /\ calls[c2].name = <<"A", ".", "e">> /\ calls[c2].key # NoValue
    /\ calls[c1].node = namehash(<<"a", ".", "e">>)

\* C5: a call issues at most one resolver request; a getter that has
\* returned issued exactly one read, which was answered, and no write;
\* a setSignature that has returned issued exactly one write and no read,
\* and its transaction is no longer pending.
C5_OneRequestAwaited ==
  \A c \in Slots :
    /\ calls[c].reads + calls[c].writes <= 1
    /\ (calls[c].pc = "done" /\ calls[c].op \in Getters) =>
         /\ calls[c].reads = 1 /\ calls[c].writes = 0
         /\ calls[c].got # NoValue
    /\ (calls[c].pc = "done" /\ calls[c].op = "setSignature") =>
         /\ calls[c].writes = 1 /\ calls[c].reads = 0
         /\ calls[c].tx \in 1..Len(txs)
         /\ txs[calls[c].tx].status # "pending"

\* C5 witness: a getPublicKey that called the recovery helper and a
\* setSignature have both returned.
C5_Witness ==
  \E c1, c2 \in Slots :
    /\ calls[c1].op = "getPublicKey" /\ calls[c1].pc = "done"
    /\ calls[c1].helper # NoValue /\ calls[c1].reads = 1
    /\ calls[c2].op = "setSignature" /\ calls[c2].pc = "done"
    /\ calls[c2].writes = 1

\* C6: whatever the layer below raises into a call is what the call rejects
\* with: the call resolves with no value, a call rejects only with what was
\* raised, and a setSignature whose write was rejected or whose transaction
\* reverted resolves with no hash.
C6_FailuresPropagate ==
  \A c \in Slots :
    /\ calls[c].raised # NoValue =>
         /\ calls[c].pc = "failed"
         /\ calls[c].error = calls[c].raised
         /\ calls[c].result = NoValue
    /\ calls[c].pc = "failed" => calls[c].raised # NoValue
    /\ (calls[c].op = "setSignature" /\ calls[c].pc = "done") =>
         /\ calls[c].tx \in 1..Len(txs)
         /\ txs[calls[c].tx].status = "success"

\* C6 witness: a getter has rejected with the transport's error while a
\* setSignature has rejected with the error of its reverted transaction.
C6_Witness ==
  \E c1, c2 \in Slots :
    /\ calls[c1].op \in Getters /\ calls[c1].pc = "failed"
    /\ calls[c1].error = "NetworkError"
    /\ calls[c2].op = "setSignature" /\ calls[c2].pc = "failed"
    /\ calls[c2].error = "CallException"
    /\ txs[calls[c2].tx].status = "reverted"

\* What getSignature(d) and getBytecode(d) resolve with when the resolver
\* answers them from the records recs.
SignatureRead == [d \in ValidNames |-> getSignatureBegin(Start("getSignature", d, NoValue))]
BytecodeRead == [d \in ValidNames |-> getBytecodeBegin(Start("getBytecode", d, NoValue))]

GetSignatureIn(recs, d) ==
  LET begun == SignatureRead[d]
  IN  getSignatureResume(begun, Ok(TextIn(recs, begun.node, begun.key))).result

GetBytecodeIn(recs, d) ==
  LET begun == BytecodeRead[d]
  IN  getBytecodeResume(begun, Ok(TextIn(recs, begun.node, begun.key))).result

\* The same, in the current state.
GetSignatureNow(d) == GetSignatureIn(texts, d)
GetBytecodeNow(d) == GetBytecodeIn(texts, d)

\* C7: no step changes what getBytecode returns for any domain, and a step
\* changes what getSignature returns for a domain only by executing a
\* transaction of a setSignature for a name with that domain's identifier.
C7_SetSignatureFrame ==
  [][\A d \in ValidNames :
       /\ GetBytecodeIn(texts', d) = GetBytecodeIn(texts, d)
       /\ GetSignatureIn(texts', d) # GetSignatureIn(texts, d) =>
            \E t \in 1..Len(txs) :
              /\ txs[t].status = "pending" /\ txs'[t].status = "success"
              /\ txs[t].op = "setSignature"
              /\ txs[t].name \in ValidNames
              /\ IdOf[txs[t].name] = IdOf[d]]_vars

\* C7 witness: a setSignature for a.e and one for b.e have been executed;
\* the bytecode of a.e is the initial one and that of b.e is still unset.
C7_Witness ==
  /\ Len(applied) = 2
  /\ Executed(1).name = <<"a", ".", "e">> /\ Executed(1).sig = "0xbad"
  /\ Executed(2).name = <<"b", ".", "e">> /\ Executed(2).sig = "0x1"
  /\ GetSignatureNow(<<"a", ".", "e">>) = "0xbad"
  /\ GetSignatureNow(<<"b", ".", "e">>) = "0x1"
  /\ GetBytecodeNow(<<"a", ".", "e">>) = "0xb"
  /\ GetBytecodeNow(<<"b", ".", "e">>) = ""

\* What getPublicKey resolves with for a stored signature.
PublicKeyFor(sig) ==
  IF Falsy(sig) THEN Undefined ELSE getPublicKeyFromSignature(sig)

\* C8: a getSignature or getPublicKey for d2 that is answered after a
\* setSignature(d1, s) was executed, d1 a capitalization of d2, observes the
\* signature of the last such setSignature executed.
C8_CapitalizationsShareRecord ==
  \A c \in Slots :
    (calls[c].op \in {"getSignature", "getPublicKey"} /\ calls[c].pc = "done") =>
      LET i == Last(WritesModuloCase(calls[c].name, calls[c].at))
      IN  i # 0 =>
            calls[c].result =
              IF calls[c].op = "getSignature" THEN Executed(i).sig
              ELSE PublicKeyFor(Executed(i).sig)

\* C8 witness: setSignature(A.e, "0xbad") has returned, and getSignature(a.e)
\* answered after it has returned "0xbad".
C8_Witness ==
  \E c1, c2 \in Slots :
    /\ calls[c1].op = "setSignature" /\ calls[c1].pc = "done"
    /\ calls[c1].name = <<"A", ".", "e">> /\ calls[c1].sig = "0xbad"
    /\ calls[c2].op = "getSignature" /\ calls[c2].pc = "done"
    /\ calls[c2].name = <<"a", ".", "e">>
    /\ calls[c2].result = "0xbad"

\* The setSignature calls for a name with the identifier n.
SetCallsOn(n) ==
  {c \in Slots : /\ calls[c].op = "setSignature"
                 /\ calls[c].name \in ValidNames
                 /\ IdOf[calls[c].name] = n}

Returned(n) == {c \in SetCallsOn(n) : calls[c].pc = "done"}

\* Several setSignature calls were made for n, every one has settled and one
\* has returned.
AllReturned(n) ==
  /\ Cardinality(SetCallsOn(n)) >= 2
  /\ Returned(n) # {}
  /\ \A c \in SetCallsOn(n) : calls[c].pc \in {"done", "failed"}

\* A returned setSignature call returned the hash of the transaction that
\* carries its own arguments, no other call returned that hash, and the
\* transaction was executed.
OwnTransaction(c) ==
  /\ calls[c].tx \in 1..Len(txs)
  /\ calls[c].result = TxHash(calls[c].tx)
  /\ txs[calls[c].tx].name = calls[c].name
  /\ txs[calls[c].tx].sig = calls[c].sig
  /\ \A d \in Slots \ {c} : calls[d].pc = "done" => calls[d].result # calls[c].result
  /\ \E i \in 1..Len(applied) : applied[i] = calls[c].tx

\* Once every setSignature for n has returned, getSignature returns the
\* signature of the write executed last, which one of the calls sent.
LastWriteWins(n) ==
  LET i == Last(WritesToNode(n, Len(applied)))
  IN  /\ i # 0
      /\ applied[i] \in {calls[c].tx : c \in Returned(n)}
      /\ \A c \in SetCallsOn(n) : GetSignatureNow(calls[c].name) = Executed(i).sig

RECURSIVE RecordsAfter(_)
RecordsAfter(k) ==
  IF k = 0 THEN InitialRecords
  ELSE [RecordsAfter(k - 1) EXCEPT
          ![<<Executed(k).node, Executed(k).key>>] = Executed(k).value]

\* C10: the getters are read-only: none issues a write or sends a
\* transaction, the records are the initial ones changed by the executed
\* setSignature transactions only, and two reads of the same kind for the
\* same name with no transaction executed in between return the same result.
C10_ReadsAreReadOnly ==
  /\ \A t \in 1..Len(txs) : txs[t].op = "setSignature"
  /\ \A c \in Slots : calls[c].op \in Getters => (calls[c].writes = 0 /\ calls[c].tx = 0)
  /\ texts = RecordsAfter(Len(applied))
  /\ \A c1, c2 \in Slots :
       (/\ calls[c1].op \in Getters /\ calls[c2].op = calls[c1].op
        /\ calls[c1].pc = "done" /\ calls[c2].pc = "done"
        /\ calls[c1].name = calls[c2].name
        /\ calls[c1].at = calls[c2].at) =>
         calls[c1].result = calls[c2].result

\* C10 witness: getPublicKey was called twice for a.e and returned the same
\* key twice.
C10_Witness ==
  /\ calls[1].op = "getPublicKey" /\ calls[1].pc = "done"
  /\ calls[2].op = "getPublicKey" /\ calls[2].pc = "done"
  /\ calls[1].name = <<"a", ".", "e">> /\ calls[2].name = <<"a", ".", "e">>
  /\ calls[1].result = "pk:0x1" /\ calls[2].result = "pk:0x1"

====
